---- MODULE Spec2Model ----
(***************************************************************************)
(* Verification model of the web-publication gateway: the SSRF-guarded     *)
(* fetch client (pkg/serve/client), the token validators (pkg/serve/auth)  *)
(* and the publication cache (pkg/serve/cache, pkg/serve).                 *)
(*                                                                         *)
(* Strings that the code only compares for equality are TLA+ strings.      *)
(* URL paths, on which the code runs strings.HasPrefix, are sequences of   *)
(* one-character strings, so that a prefix test is a real computation.     *)
(***************************************************************************)
EXTENDS Integers, Sequences, FiniteSets, TLC

VARIABLES
    \* ---- fetch client (pkg/serve/client) ----
    whitelist,      \* authTransport.Whitelist / the list captured by CheckRedirect
    Authorization,  \* authTransport.Authorization ("" = not configured)
    bypassSafeSocketControl, \* the unsafe-requests flag given to NewHTTPClient
    Control,        \* net.Dialer.Control: "safeSocketControl" or "nil"
    pc,             \* position of the current http.Client.Do call
    callerReq,      \* the request object the caller passed to Do
    req,            \* the request of the current hop
    via,            \* len(via): the number of requests already made in this Do
    transportReq,   \* the request last handed to the underlying http.Transport
    dialed,         \* the (network, address) the current hop dialed, or NoDial
    conn,           \* the connection the current hop obtained, or NoDial
    wire,           \* the request bytes last written to a connection, or NoWire
    pending,        \* the response the server sent for the current hop
    resp,           \* the response returned by Do (NilResponse = nil)
    err,            \* the error returned by Do (Nil = nil)
    allowed,        \* result of a direct validateAgainstWhitelist call
    \* ---- token validators (pkg/serve/auth) ----
    provider,       \* the AuthProvider selected at start-up: "jwt" or "jwks"
    sharedSecret,   \* JWTAuthProvider.sharedSecret
    keyset,         \* the key-set snapshot held by JWKSAuthProvider.kf
    token,          \* the token of the request being validated
    now,            \* the clock read by the claims validator
    outcome,        \* what the last Validate call returned
    \* ---- publication cache (pkg/serve/cache, Server.lfu) ----
    keys,           \* the canonical paths requested in this run
    workers,        \* the request handlers of this run
    lfu,            \* Server.lfu: canonical path -> cached publication
    pubs,           \* every Publication object: how far it is built, times closed
    flight,         \* the keys with a construction in flight
    wpc,            \* position of each request handler
    rkey,           \* the canonical path each handler asked for
    held,           \* the publication each handler builds or was handed
    evicting,       \* the removal in progress under the cache's lock
    \* ---- plain-encoding validator (pkg/serve/auth/encoded.go) ----
    encoded,        \* the token presented to B64EncodedAuthProvider.Validate
    decoded,        \* what that call returned
    \* ---- one request under /webpub/{path} (pkg/serve/router.go) ----
    rpc,            \* how far the request has got through the router
    route,          \* the route of the subrouter the request matched
    ctx,            \* the value under ContextPathKey in the request's context
    handlerCalls,   \* the downstream handlers invoked, with the context they saw
    reply,          \* what has been written to the ResponseWriter
    \* ---- the serve command (RunE) and serve.Remote ----
    schemeFlag,     \* --scheme, as a set of the strings given
    fileDirectoryFlag, \* --file-directory
    httpHostWhitelistFlag, \* --http-host-whitelist
    mode,           \* --mode
    jwksURL,        \* --jwks-url
    started,        \* "flags" before RunE; "serving", "failed" or "exited" after
    startErr,       \* the error RunE returned, or the one log.Fatal printed
    remote,         \* the Remote handed to serve.NewServer
    serverAuth,     \* ServerConfig.Auth: the kind of provider handed to NewServer
    logged,         \* the warnings RunE logged
    answer          \* the last answer of Remote.AcceptsScheme

fetchVars == <<whitelist, Authorization, bypassSafeSocketControl, Control, pc, callerReq, req, via,
               transportReq, dialed, conn, wire, pending, resp, err, allowed>>

authVars == <<provider, sharedSecret, keyset, token, now, outcome>>

cacheVars == <<keys, workers, lfu, pubs, flight, wpc, rkey, held, evicting>>

encodedVars == <<encoded, decoded>>

routerVars == <<rpc, route, ctx, handlerCalls, reply>>

startVars == <<schemeFlag, fileDirectoryFlag, httpHostWhitelistFlag, mode, jwksURL, started,
               startErr, remote, serverAuth, logged, answer>>

vars == <<fetchVars, authVars, cacheVars, encodedVars, routerVars, startVars>>

\* What an action of the fetch client leaves untouched.
otherThanFetch == <<authVars, cacheVars, encodedVars, routerVars, startVars>>

\* What an action of a token validator leaves untouched.
otherThanAuth == <<fetchVars, cacheVars, encodedVars, routerVars, startVars>>

\* What an action of the publication cache leaves untouched.
otherThanCache == <<fetchVars, authVars, encodedVars, routerVars, startVars>>

\* What the plain-encoding validator leaves untouched.
otherThanEncoded == <<fetchVars, authVars, cacheVars, routerVars, startVars>>

\* What a request through the router leaves untouched, the validators' variables
\* apart.
otherThanRouter == <<fetchVars, cacheVars, startVars>>

\* What the start-up and the Remote leave untouched.
otherThanStart == <<fetchVars, authVars, cacheVars, encodedVars, routerVars>>

Nil == "nil"

(***************************************************************************)
(* Bounds of the model.                                                    *)
(***************************************************************************)
MaxPathLen == 2        \* longest generated URL path, in characters
MaxWhitelistLen == 2   \* longest generated allow-list, in entries
MaxTime == 2           \* the clock and the time claims range over 0..MaxTime
ExtraKeys == 1         \* distinct canonical paths beyond the cache's capacity
NumWorkers == 2        \* concurrent request handlers
MaxTokenLen == 3       \* longest generated plain-encoding token, in characters
MaxDecodedLen == 2     \* longest generated canonical path, in bytes
MaxWhitelistFlagLen == 1 \* longest generated --http-host-whitelist, in entries

(***************************************************************************)
(* URLs: Host (hostname[:port]) and Path, as net/url parses them.          *)
(***************************************************************************)
Hosts == {"example.com", "evil.test"}

PathAlphabet == {"/", "a"}

RECURSIVE SeqsUpTo(_, _)
SeqsUpTo(S, n) ==
    IF n = 0 THEN {<<>>}
    ELSE LET shorter == SeqsUpTo(S, n - 1)
         IN  shorter \cup {Append(s, x) : s \in {t \in shorter : Len(t) = n - 1}, x \in S}

\* "/books", "/books/a.epub", "/other/a.epub" and "/booksX": the paths of the
\* documented allow-list example, plus a sibling sharing the textual prefix.
PathBooks == <<"/", "b", "o", "o", "k", "s">>
PathBooksEpub == PathBooks \o <<"/", "a", ".", "e", "p", "u", "b">>
PathOtherEpub == <<"/", "o", "t", "h", "e", "r", "/", "a", ".", "e", "p", "u", "b">>
PathBooksX == PathBooks \o <<"X">>

ExamplePaths == {PathBooks, PathBooksEpub, PathOtherEpub, PathBooksX}

Paths == SeqsUpTo(PathAlphabet, MaxPathLen) \cup ExamplePaths

URL(host, path) == [Host |-> host, Path |-> path]

URLs == {URL(h, p) : h \in Hosts, p \in Paths}

\* Allow-list entries: after the start-up checks every entry has a host; its
\* path may be empty.
WhitelistPaths == {<<>>, <<"/">>, <<"/", "a">>, PathBooks}

WhitelistEntries == {URL(h, p) : h \in Hosts, p \in WhitelistPaths}

Whitelists == SeqsUpTo(WhitelistEntries, MaxWhitelistLen)

\* strings.HasPrefix(s, prefix)
HasPrefix(s, prefix) ==
    /\ Len(prefix) <= Len(s)
    /\ SubSeq(s, 1, Len(prefix)) = prefix

(***************************************************************************)
(* validateAgainstWhitelist: the loop over the allow-list entries.         *)
(***************************************************************************)
\* A plausible slip: the host comparison is dropped, only the path is tested.
RECURSIVE whitelistLoopAnyHost(_, _, _)
whitelistLoopAnyHost(url, wl, i) ==
    IF i > Len(wl) THEN FALSE
    ELSE IF wl[i].Path = <<>> \/ HasPrefix(url.Path, wl[i].Path) THEN TRUE
    ELSE whitelistLoopAnyHost(url, wl, i + 1)

\* for _, u := range whitelist { ... } ; return false
RECURSIVE whitelistLoop(_, _, _)
whitelistLoop(url, wl, i) ==
    IF i > Len(wl) THEN FALSE
    ELSE IF wl[i].Host # url.Host THEN whitelistLoop(url, wl, i + 1)
    ELSE IF wl[i].Path = <<>> \/ HasPrefix(url.Path, wl[i].Path) THEN TRUE
    ELSE whitelistLoop(url, wl, i + 1)

validateAgainstWhitelist(url, wl) ==
    IF Len(wl) = 0 THEN TRUE ELSE whitelistLoop(url, wl, 1)

(***************************************************************************)
(* The connection gate.  A dial target is a network name and an address;   *)
(* an address is <<host, port>>, or <<host>> when it carries no port.      *)
(***************************************************************************)
\* Literal IP addresses and the class of each.
IPClass ==
    [ip \in {"93.184.216.34", "2606:2800:220:1::1", "10.0.0.5", "127.0.0.1",
             "169.254.169.254", "224.0.0.1", "0.0.0.0", "::1"} |->
        CASE ip = "93.184.216.34"      -> "public"
          [] ip = "2606:2800:220:1::1" -> "public"
          [] ip = "10.0.0.5"           -> "private"
          [] ip = "127.0.0.1"          -> "loopback"
          [] ip = "169.254.169.254"    -> "link-local"
          [] ip = "224.0.0.1"          -> "multicast"
          [] ip = "0.0.0.0"            -> "unspecified"
          [] ip = "::1"                -> "loopback"]

DialPorts == {"80", "443", "8080"}

IPv4Hosts == {"93.184.216.34", "10.0.0.5", "127.0.0.1", "169.254.169.254",
              "224.0.0.1", "0.0.0.0"}

IPv6Hosts == {"2606:2800:220:1::1", "::1"}

DialTarget(network, address) == [network |-> network, address |-> address]

\* What Control can be called with: the dialer names the network after the
\* address family; a datagram network, a host name and an address without a
\* port are the malformed cases the gate tests for.
DialTargets ==
    {DialTarget("tcp4", <<h, p>>) : h \in IPv4Hosts, p \in DialPorts}
    \cup {DialTarget("tcp6", <<h, p>>) : h \in IPv6Hosts, p \in DialPorts}
    \cup {DialTarget("udp4", <<"93.184.216.34", p>>) : p \in DialPorts}
    \cup {DialTarget("tcp4", <<"example.com", "443">>),
          DialTarget("tcp4", <<"93.184.216.34">>)}

NoDial == [network |-> "none", address |-> <<>>]

\* net.SplitHostPort(address)
SplitHostPort(address) ==
    IF Len(address) = 2
    THEN [host |-> address[1], port |-> address[2], err |-> Nil]
    ELSE [host |-> "", port |-> "", err |-> "missing port in address"]

\* net.ParseIP(host): Nil unless host is a literal IP address.
ParseIP(host) == IF host \in DOMAIN IPClass THEN host ELSE Nil

\* isPublicIPAddress(ip): publicly routable, i.e. in none of the reserved ranges.
isPublicIPAddress(ip) == IPClass[ip] = "public"

\* A plausible slip: the port test is left out.
safeSocketControlAnyPort(network, address) ==
    IF ~(network = "tcp4" \/ network = "tcp6") THEN "not a safe network type"
    ELSE IF SplitHostPort(address).err # Nil THEN "not a valid host/port pair"
    ELSE IF ParseIP(SplitHostPort(address).host) = Nil THEN "not a valid IP address"
    ELSE IF ~isPublicIPAddress(ParseIP(SplitHostPort(address).host))
         THEN "not a public IP address"
    ELSE Nil

safeSocketControl(network, address) ==
    IF ~(network = "tcp4" \/ network = "tcp6") THEN "not a safe network type"
    ELSE IF SplitHostPort(address).err # Nil THEN "not a valid host/port pair"
    ELSE IF ParseIP(SplitHostPort(address).host) = Nil THEN "not a valid IP address"
    ELSE IF ~isPublicIPAddress(ParseIP(SplitHostPort(address).host))
         THEN "not a public IP address"
    ELSE IF ~(SplitHostPort(address).port = "80" \/ SplitHostPort(address).port = "443")
         THEN "not a safe port number"
    ELSE Nil

\* NewHTTPClient: safeDialer.Control is safeSocketControl unless the bypass is set.
\* A plausible slip: the bypass test is inverted.
dialerControlInverted(bypass) ==
    IF bypass THEN "safeSocketControl" ELSE "nil"

dialerControl(bypass) ==
    IF bypass THEN "nil" ELSE "safeSocketControl"

\* net.Dialer: Control, when set, is called after the socket is created and
\* before connect; an error from it fails the dial.
dialError(control, target) ==
    IF control = "nil" THEN Nil
    ELSE safeSocketControl(target.network, target.address)

(***************************************************************************)
(* The client built by NewHTTPClient and one http.Client.Do call through   *)
(* it: authTransport.RoundTrip, the dial through safeDialer, the write of  *)
(* the request, the server's answer and the redirect decision.             *)
(***************************************************************************)
\* The URLs a fetch is started with and the Location values a server may send.
FetchURLs ==
    {URL("example.com", PathBooksEpub), URL("example.com", PathOtherEpub),
     URL("example.com", PathBooksX), URL("evil.test", PathBooksEpub),
     URL("evil.test", <<>>)}

\* The allow-lists the client is built with.
FetchWhitelists ==
    {<<>>,
     <<URL("example.com", PathBooks)>>,
     <<URL("example.com", PathBooks), URL("evil.test", <<>>)>>}

AuthorizationValues == {"", "Bearer s3cr3t"}

Request(url, authorization) == [URL |-> url, Header |-> [Authorization |-> authorization]]

NoRequest == Request(URL("", <<>>), "")

NoWire == [URL |-> URL("", <<>>), conn |-> NoDial]

NoResponse == [Status |-> 0, Location |-> URL("", <<>>)]

\* A response as Do returns it: the URL of the request it answers, the status,
\* and whether its body is still open for reading.
Response(url, status, open) == [URL |-> url, Status |-> status, BodyOpen |-> open]

\* The nil *http.Response.
NilResponse == Response(URL("", <<>>), 0, FALSE)

ErrWhitelistRequest == "request is not allowed by the whitelist"
ErrWhitelistRedirect == "redirect is not allowed by the whitelist"
ErrTooManyRedirects == "stopped after 10 redirects"

GateErrors ==
    {"not a safe network type", "not a valid host/port pair", "not a valid IP address",
     "not a public IP address", "not a safe port number"}

\* CheckRedirect(req, via), with len(via) for via.
\* A plausible slip: the count is compared with > in place of >=.
CheckRedirectOffByOne(url, nvia, wl) ==
    IF nvia > 10 THEN ErrTooManyRedirects
    ELSE IF ~validateAgainstWhitelist(url, wl) THEN ErrWhitelistRedirect
    ELSE Nil

CheckRedirect(url, nvia, wl) ==
    IF nvia >= 10 THEN ErrTooManyRedirects
    ELSE IF ~validateAgainstWhitelist(url, wl) THEN ErrWhitelistRedirect
    ELSE Nil

\* A plausible slip: RoundTrip forwards without consulting the allow-list.
RoundTripErrorUnchecked(r, wl) == Nil

\* authTransport.RoundTrip up to the call of the underlying transport: the error
\* it returns by itself, and the request it hands on.
RoundTripError(r, wl) ==
    IF ~validateAgainstWhitelist(r.URL, wl) THEN ErrWhitelistRequest ELSE Nil

RoundTripRequest(r, authorization) ==
    IF authorization = "" THEN r
    ELSE Request(r.URL, authorization)

\* A plausible slip: the header is set on the request itself, not on a clone.
RoundTripArgumentSetInPlace(r, authorization) ==
    IF authorization = "" THEN r
    ELSE Request(r.URL, authorization)

\* The request object RoundTrip was called with, as the call leaves it: the
\* header is set on req2 = req.Clone(...), so req is as it was.
RoundTripArgument(r, authorization) == r

InitFetchIdle ==
    /\ pc = "idle"
    /\ callerReq = NoRequest
    /\ req = NoRequest
    /\ via = 0
    /\ transportReq = NoRequest
    /\ dialed = NoDial
    /\ conn = NoDial
    /\ wire = NoWire
    /\ pending = NoResponse
    /\ resp = NilResponse
    /\ err = Nil
    /\ allowed = Nil

\* NewHTTPClient(auth, whitelist, bypassSafeSocketControl)
NewHTTPClient(auth, wl, bypass) ==
    /\ Authorization = auth
    /\ whitelist = wl
    /\ bypassSafeSocketControl = bypass
    /\ Control = dialerControl(bypass)

config == <<whitelist, Authorization, bypassSafeSocketControl, Control>>

\* client.Do(req): the first request of a chain; no redirect check applies to it.
Do(url) ==
    /\ pc \in {"idle", "done"}
    /\ callerReq' = Request(url, "")
    /\ req' = Request(url, "")
    /\ via' = 0
    /\ pc' = "send"
    /\ transportReq' = NoRequest
    /\ dialed' = NoDial
    /\ conn' = NoDial
    /\ wire' = NoWire
    /\ pending' = NoResponse
    /\ resp' = NilResponse
    /\ err' = Nil
    /\ UNCHANGED <<config, allowed>>
    /\ UNCHANGED otherThanFetch

\* authTransport.RoundTrip(req): refuse, or hand the request (or its clone
\* carrying the Authorization header) to the underlying transport.  An error of
\* the transport of any hop makes Do return (nil, err).  The request of the
\* first hop is the object the caller passed to Do.
RoundTrip ==
    /\ pc = "send"
    /\ IF RoundTripError(req, whitelist) # Nil
       THEN /\ resp' = NilResponse
            /\ err' = RoundTripError(req, whitelist)
            /\ pc' = "done"
            /\ UNCHANGED <<transportReq, req>>
       ELSE /\ transportReq' = RoundTripRequest(req, Authorization)
            /\ req' = RoundTripArgument(req, Authorization)
            /\ pc' = "transport"
            /\ UNCHANGED <<resp, err>>
    /\ callerReq' = IF via = 0 THEN req' ELSE callerReq
    /\ dialed' = NoDial
    /\ conn' = NoDial
    /\ wire' = NoWire
    /\ UNCHANGED <<config, via, pending, allowed>>
    /\ UNCHANGED otherThanFetch

\* http.Transport dials through safeDialer.DialContext: Control runs on the
\* resolved address before the connection is established.
Dial(target) ==
    /\ pc = "transport"
    /\ dialed' = target
    /\ IF dialError(Control, target) # Nil
       THEN /\ resp' = NilResponse
            /\ err' = dialError(Control, target)
            /\ pc' = "done"
            /\ UNCHANGED conn
       ELSE /\ conn' = target
            /\ pc' = "connected"
            /\ UNCHANGED <<resp, err>>
    /\ UNCHANGED <<config, callerReq, req, via, transportReq, wire, pending, allowed>>
    /\ UNCHANGED otherThanFetch

\* http.Transport writes the request it was handed to the connection.
WriteRequest ==
    /\ pc = "connected"
    /\ wire' = [URL |-> transportReq.URL, conn |-> conn]
    /\ pc' = "written"
    /\ UNCHANGED <<config, callerReq, req, via, transportReq, dialed, conn, pending,
                   resp, err, allowed>>
    /\ UNCHANGED otherThanFetch

\* The server answers: a final response, or a redirect to some location.  The
\* request is no longer in flight and the connection goes back to the pool.
Receive(status, location) ==
    /\ pc = "written"
    /\ pending' = [Status |-> status, Location |-> location]
    /\ pc' = "received"
    /\ dialed' = NoDial
    /\ conn' = NoDial
    /\ wire' = NoWire
    /\ UNCHANGED <<config, callerReq, req, via, transportReq, resp, err, allowed>>
    /\ UNCHANGED otherThanFetch

\* client.do after a response: return a final response; for a redirect build
\* the next request, run CheckRedirect(next, reqs) and either go on with the
\* next hop or return the previous response (body closed) with the error.
Redirect ==
    /\ pc = "received"
    /\ IF pending.Status # 302
       THEN /\ resp' = Response(req.URL, pending.Status, TRUE)
            /\ err' = Nil
            /\ pc' = "done"
            /\ UNCHANGED <<req, via>>
       ELSE IF CheckRedirect(pending.Location, via + 1, whitelist) # Nil
       THEN /\ resp' = Response(req.URL, pending.Status, FALSE)
            /\ err' = CheckRedirect(pending.Location, via + 1, whitelist)
            /\ pc' = "done"
            /\ via' = via + 1
            /\ UNCHANGED req
       ELSE /\ req' = Request(pending.Location, "")
            /\ via' = via + 1
            /\ pc' = "send"
            /\ UNCHANGED <<resp, err>>
    /\ pending' = NoResponse
    /\ UNCHANGED <<config, callerReq, transportReq, dialed, conn, wire, allowed>>
    /\ UNCHANGED otherThanFetch


(***************************************************************************)
(* validateAgainstWhitelist applied on its own to a URL and an allow-list. *)
(***************************************************************************)
ValidateURL ==
    /\ pc = "input"
    /\ allowed' = validateAgainstWhitelist(req.URL, whitelist)
    /\ pc' = "validated"
    /\ UNCHANGED <<config, callerReq, req, via, transportReq, dialed, conn, wire,
                   pending, resp, err>>
    /\ UNCHANGED otherThanFetch

(***************************************************************************)
(* Token validators.  A signed token is its header (alg, kid), the key its *)
(* signature was made with, and its claims (exp, nbf, sub).  An error is   *)
(* the set of error values errors.Is finds in its chain; nil is {}.        *)
(***************************************************************************)
StatusOK == 200
StatusBadRequest == 400
StatusGone == 410
StatusInternalServerError == 500

ErrTokenMalformed == "token is malformed"
ErrTokenUnverifiable == "token is unverifiable"
ErrTokenSignatureInvalid == "token signature is invalid"
ErrTokenInvalidClaims == "token has invalid claims"
ErrTokenExpired == "token is expired"
ErrTokenNotValidYet == "token is not valid yet"
ErrInvalidKeyType == "key is of invalid type"
ErrNoneSignatureTypeDisallowed == "'none' signature type is not allowed"
ErrKeyfunc == "failed keyfunc"
ErrKeyNotFound == "key not found"
ErrInvalidJWT == "invalid JWT token"
ErrSubjectExtraction == "failed extracting subject from JWT"
ErrSubjectEmpty == "JWT subject is empty"

NilError == {}

\* errors.Is(err, target)
errorsIs(e, target) == target \in e

\* Signing methods registered with the jwt package, and header values that
\* name none of them ("" = no alg header).
HMACMethods == {"HS256", "HS384"}
RSAMethods == {"RS256"}
RegisteredMethods == HMACMethods \cup RSAMethods \cup {"none"}
Algs == RegisteredMethods \cup {"", "XS256"}

Secrets == {"secret-A", "secret-B"}
KeyIDs == {"k1", "k2"}

\* A time claim is absent ({}) or carries one time ({t}).
TimeClaims == {{}} \cup {{t} : t \in 0..MaxTime}

\* The sub claim: absent, a string, or a JSON value that is no string.
Subject(kind, value) == [kind |-> kind, value |-> value]
Subjects == {Subject("absent", ""), Subject("string", ""), Subject("string", "file:///book.epub"),
             Subject("number", "7")}

Token(form, alg, kid, signedWith, exp, nbf, sub) ==
    [form |-> form, alg |-> alg, kid |-> kid, signedWith |-> signedWith,
     exp |-> exp, nbf |-> nbf, sub |-> sub]

\* Tokens that do not parse: not three segments, or a signature segment that
\* is not base64url.
MalformedTokens ==
    {Token(f, "HS256", "", "secret-A", {}, {}, Subject("string", "file:///book.epub")) :
        f \in {"segments", "signature-encoding"}}

\* Tokens presented to the shared-secret validator: signed with some secret,
\* or unsigned.
JWTTokens ==
    MalformedTokens \cup
    {Token("wellformed", a, "", k, e, n, sb) :
        a \in Algs, k \in Secrets \cup {""}, e \in TimeClaims, n \in TimeClaims,
        sb \in Subjects}

\* Tokens presented to the key-set validator: signed with the private key of
\* some key id, naming a key id or none.
JWKSTokens ==
    MalformedTokens \cup
    {Token("wellformed", a, kid, k, e, n, sb) :
        a \in {"RS256", "HS256", "none"}, kid \in KeyIDs \cup {""}, k \in KeyIDs,
        e \in TimeClaims, n \in {{}}, sb \in Subjects}

NoToken == Token("none", "", "", "", {}, {}, Subject("absent", ""))

\* A verification key as a keyfunc returns it.
Key(type, id) == [type |-> type, id |-> id]

\* SigningMethod.Verify(text, signature, key): HMAC wants a []byte key, RSA a
\* public key, and "none" refuses every key that is not the unsafe marker.
Verify(tok, key) ==
    IF tok.alg \in HMACMethods THEN
        IF key.type # "bytes" THEN {ErrInvalidKeyType}
        ELSE IF tok.signedWith = key.id THEN NilError
        ELSE {ErrTokenSignatureInvalid}
    ELSE IF tok.alg \in RSAMethods THEN
        IF key.type # "rsa" THEN {ErrInvalidKeyType}
        ELSE IF tok.signedWith = key.id THEN NilError
        ELSE {"crypto/rsa: verification error"}
    ELSE {ErrNoneSignatureTypeDisallowed}

\* jwt.Validator.Validate(claims) with the default options: exp and nbf are
\* checked when present; the failures are joined.
validateClaims(tok, t) ==
    (IF tok.exp # {} /\ ~(\A e \in tok.exp : t < e) THEN {ErrTokenExpired} ELSE {})
    \cup (IF tok.nbf # {} /\ (\A n \in tok.nbf : t < n) THEN {ErrTokenNotValidYet} ELSE {})

\* jwt.Parser.Parse(token, keyFunc): validMethods is the parser's list of valid
\* methods ({} = no restriction), kf the result of keyFunc: [key, err].
Parse(tok, validMethods, kf, t) ==
    IF tok.form = "segments" THEN [Valid |-> FALSE, err |-> {ErrTokenMalformed}]
    ELSE IF tok.alg \notin RegisteredMethods
         THEN [Valid |-> FALSE, err |-> {ErrTokenUnverifiable}]
    ELSE IF validMethods # {} /\ tok.alg \notin validMethods
         THEN [Valid |-> FALSE, err |-> {ErrTokenSignatureInvalid}]
    ELSE IF tok.form = "signature-encoding"
         THEN [Valid |-> FALSE, err |-> {ErrTokenMalformed}]
    ELSE IF kf.err # NilError
         THEN [Valid |-> FALSE, err |-> {ErrTokenUnverifiable} \cup kf.err]
    ELSE IF Verify(tok, kf.key) # NilError
         THEN [Valid |-> FALSE, err |-> {ErrTokenSignatureInvalid} \cup Verify(tok, kf.key)]
    ELSE IF validateClaims(tok, t) # {}
         THEN [Valid |-> FALSE, err |-> {ErrTokenInvalidClaims} \cup validateClaims(tok, t)]
    ELSE [Valid |-> TRUE, err |-> NilError]

\* MapClaims.GetSubject(): "" for an absent claim, an error for a non-string.
GetSubject(tok) ==
    IF tok.sub.kind = "number" THEN [subject |-> "", err |-> {"invalid type for claim"}]
    ELSE [subject |-> tok.sub.value, err |-> NilError]

Outcome(path, status, e) == [path |-> path, status |-> status, err |-> e]

NoOutcome == Outcome("", 0, NilError)

\* A plausible slip: the expired branch answers 400 like its neighbours.
statusOfParseErrorExpired400(e) ==
    IF errorsIs(e, ErrKeyNotFound) THEN StatusBadRequest
    ELSE IF errorsIs(e, ErrTokenMalformed) THEN StatusBadRequest
    ELSE IF errorsIs(e, ErrTokenSignatureInvalid) THEN StatusBadRequest
    ELSE IF errorsIs(e, ErrTokenExpired) THEN StatusBadRequest
    ELSE StatusInternalServerError

\* The if-chain on the parser's error.
statusOfParseError(e) ==
    IF errorsIs(e, ErrKeyNotFound) THEN StatusBadRequest
    ELSE IF errorsIs(e, ErrTokenMalformed) THEN StatusBadRequest
    ELSE IF errorsIs(e, ErrTokenSignatureInvalid) THEN StatusBadRequest
    ELSE IF errorsIs(e, ErrTokenExpired) THEN StatusGone
    ELSE StatusInternalServerError

\* A plausible slip: the test for an empty subject is left out.
subjectOutcomeUnchecked(tok) ==
    IF GetSubject(tok).err # NilError
    THEN Outcome("", StatusBadRequest, {ErrSubjectExtraction})
    ELSE Outcome(GetSubject(tok).subject, StatusOK, NilError)

\* The part of Validate after a successful parse of a valid token.
subjectOutcome(tok) ==
    IF GetSubject(tok).err # NilError
    THEN Outcome("", StatusBadRequest, {ErrSubjectExtraction})
    ELSE IF GetSubject(tok).subject = ""
    THEN Outcome("", StatusBadRequest, {ErrSubjectEmpty})
    ELSE Outcome(GetSubject(tok).subject, StatusOK, NilError)

\* A plausible slip: the subject read from the token is returned along with the
\* parser's error.
validateParsedKeepsPath(tok, parsed) ==
    IF parsed.err # NilError
    THEN Outcome(GetSubject(tok).subject, statusOfParseError(parsed.err), parsed.err)
    ELSE IF ~parsed.Valid THEN Outcome("", StatusBadRequest, {ErrInvalidJWT})
    ELSE subjectOutcome(tok)

\* Validate, given the parser's result.
validateParsed(tok, parsed) ==
    IF parsed.err # NilError THEN Outcome("", statusOfParseError(parsed.err), parsed.err)
    ELSE IF ~parsed.Valid THEN Outcome("", StatusBadRequest, {ErrInvalidJWT})
    ELSE subjectOutcome(tok)

\* A plausible slip: the parser is built without WithValidMethods.
JWTValidMethodsUnrestricted == {}

\* NewJWTAuthProvider: jwt.NewParser(jwt.WithValidMethods([HS256]))
JWTValidMethods == {"HS256"}

\* NewJWKSAuthProvider: jwt.NewParser()
JWKSValidMethods == {}

\* The keyfunc of JWTAuthProvider.Validate: always the shared secret.
sharedSecretKeyfunc(secret) == [key |-> Key("bytes", secret), err |-> NilError]

\* keyfunc.Keyfunc: the key of the token's kid in the current snapshot.
jwksKeyfunc(tok, ks) ==
    IF tok.kid = "" THEN [key |-> Key("none", ""), err |-> {ErrKeyfunc}]
    ELSE IF tok.kid \notin ks
         THEN [key |-> Key("none", ""), err |-> {ErrKeyfunc, ErrKeyNotFound}]
    ELSE [key |-> Key("rsa", tok.kid), err |-> NilError]

\* JWTAuthProvider.Validate(token)
JWTAuthProviderValidate(tok, secret, t) ==
    validateParsed(tok, Parse(tok, JWTValidMethods, sharedSecretKeyfunc(secret), t))

\* JWKSAuthProvider.Validate(token)
JWKSAuthProviderValidate(tok, ks, t) ==
    validateParsed(tok, Parse(tok, JWKSValidMethods, jwksKeyfunc(tok, ks), t))

InitAuthIdle ==
    /\ provider = "none"
    /\ sharedSecret = ""
    /\ keyset = {}
    /\ token = NoToken
    /\ now = 0
    /\ outcome = NoOutcome

\* AuthProvider.Validate(token) on the provider chosen at start-up.
AuthValidate ==
    /\ provider \in {"jwt", "jwks"}
    /\ outcome = NoOutcome
    /\ outcome' = IF provider = "jwt"
                  THEN JWTAuthProviderValidate(token, sharedSecret, now)
                  ELSE JWKSAuthProviderValidate(token, keyset, now)
    /\ UNCHANGED <<provider, sharedSecret, keyset, token, now>>
    /\ UNCHANGED otherThanAuth

\* The call has returned; time passes before the same token is presented again.
Tick ==
    /\ now < MaxTime
    /\ now' = now + 1
    /\ outcome' = NoOutcome
    /\ UNCHANGED <<provider, sharedSecret, keyset, token>>
    /\ UNCHANGED otherThanAuth

\* The background refresh of the key set swaps in a new snapshot.
RefreshKeyset(ks) ==
    /\ provider = "jwks"
    /\ ks # keyset
    /\ keyset' = ks
    /\ outcome' = NoOutcome
    /\ UNCHANGED <<provider, sharedSecret, token, now>>
    /\ UNCHANGED otherThanAuth

(***************************************************************************)
(* The plain-encoding validator.  A token is a sequence of one-character   *)
(* strings, a canonical path a sequence of bytes (0..255);                 *)
(* base64.RawURLEncoding is computed six bits at a time.                   *)
(***************************************************************************)
encodeURL ==
    <<"A", "B", "C", "D", "E", "F", "G", "H", "I", "J", "K", "L", "M", "N", "O", "P",
      "Q", "R", "S", "T", "U", "V", "W", "X", "Y", "Z", "a", "b", "c", "d", "e", "f",
      "g", "h", "i", "j", "k", "l", "m", "n", "o", "p", "q", "r", "s", "t", "u", "v",
      "w", "x", "y", "z", "0", "1", "2", "3", "4", "5", "6", "7", "8", "9", "-", "_">>

\* The alphabet of base64.StdEncoding.
encodeStd == [i \in 1..64 |-> IF i = 63 THEN "+" ELSE IF i = 64 THEN "/" ELSE encodeURL[i]]

InvalidChar == 255

\* Encoding.decodeMap: the six bits of a character, 0xFF for any other.
decodeMap(alphabet, c) ==
    IF \E i \in 1..64 : alphabet[i] = c
    THEN (CHOOSE i \in 1..64 : alphabet[i] = c) - 1
    ELSE InvalidChar

\* Encoding.EncodeToString without padding: three bytes make four characters,
\* one byte left over makes two, two bytes left over make three.
RECURSIVE EncodeToString(_, _)
EncodeToString(alphabet, src) ==
    IF Len(src) = 0 THEN <<>>
    ELSE IF Len(src) = 1 THEN
        <<alphabet[(src[1] \div 4) + 1], alphabet[((src[1] % 4) * 16) + 1]>>
    ELSE IF Len(src) = 2 THEN
        <<alphabet[(src[1] \div 4) + 1],
          alphabet[((src[1] % 4) * 16 + (src[2] \div 16)) + 1],
          alphabet[((src[2] % 16) * 4) + 1]>>
    ELSE
        <<alphabet[(src[1] \div 4) + 1],
          alphabet[((src[1] % 4) * 16 + (src[2] \div 16)) + 1],
          alphabet[((src[2] % 16) * 4 + (src[3] \div 64)) + 1],
          alphabet[(src[3] % 64) + 1]>>
            \o EncodeToString(alphabet, SubSeq(src, 4, Len(src)))

ErrCorruptInput == "illegal base64 data"
ErrInvalidBase64Path == "invalid base64url path"

\* Encoding.decodeQuantum over the whole input, without padding and not
\* strict: "\r" and "\n" are skipped, any other character outside the alphabet
\* is corrupt input, a single character left over is corrupt input, and the
\* bits of the last character that fill no byte are dropped.  digits holds the
\* six-bit values of the quantum read so far.
RECURSIVE decodeLoop(_, _, _, _, _)
decodeLoop(alphabet, src, i, digits, dst) ==
    IF i > Len(src) THEN
        IF Len(digits) = 0 THEN [bytes |-> dst, err |-> NilError]
        ELSE IF Len(digits) = 1 THEN [bytes |-> <<>>, err |-> {ErrCorruptInput}]
        ELSE IF Len(digits) = 2 THEN
            [bytes |-> dst \o <<digits[1] * 4 + (digits[2] \div 16)>>, err |-> NilError]
        ELSE
            [bytes |-> dst \o <<digits[1] * 4 + (digits[2] \div 16),
                                (digits[2] % 16) * 16 + (digits[3] \div 4)>>,
             err |-> NilError]
    ELSE IF src[i] \in {"\r", "\n"} THEN decodeLoop(alphabet, src, i + 1, digits, dst)
    ELSE IF decodeMap(alphabet, src[i]) = InvalidChar
         THEN [bytes |-> <<>>, err |-> {ErrCorruptInput}]
    ELSE IF Len(digits) = 3 THEN
        decodeLoop(alphabet, src, i + 1, <<>>,
                   dst \o <<digits[1] * 4 + (digits[2] \div 16),
                            (digits[2] % 16) * 16 + (digits[3] \div 4),
                            (digits[3] % 4) * 64 + decodeMap(alphabet, src[i])>>)
    ELSE decodeLoop(alphabet, src, i + 1, Append(digits, decodeMap(alphabet, src[i])), dst)

\* A plausible slip: base64.RawStdEncoding in place of base64.RawURLEncoding.
RawStdDecodeString(tok) == decodeLoop(encodeStd, tok, 1, <<>>, <<>>)

\* base64.RawURLEncoding.DecodeString(token)
RawURLDecodeString(tok) == decodeLoop(encodeURL, tok, 1, <<>>, <<>>)

\* base64.RawURLEncoding.EncodeToString(path): how a client makes a token.
RawURLEncodeToString(path) == EncodeToString(encodeURL, path)

Decoded(path, status, e) == [path |-> path, status |-> status, err |-> e]

NoDecoded == Decoded(<<>>, 0, NilError)

\* B64EncodedAuthProvider.Validate(token)
B64EncodedAuthProviderValidate(tok) ==
    IF RawURLDecodeString(tok).err # NilError
    THEN Decoded(<<>>, StatusBadRequest, {ErrInvalidBase64Path} \cup RawURLDecodeString(tok).err)
    ELSE Decoded(RawURLDecodeString(tok).bytes, StatusOK, NilError)

\* The characters of the generated tokens: of the alphabet, of the standard
\* alphabet only, the padding character, and line ends.
TokenChars == {"Q", "R", "w", "_", "+", "=", "\n", "\r"}

\* The bytes of the generated canonical paths.
PathBytes == {0, 47, 65, 255}

EncodedPaths == SeqsUpTo(PathBytes, MaxDecodedLen)

EncodedTokens ==
    SeqsUpTo(TokenChars, MaxTokenLen) \cup {RawURLEncodeToString(path) : path \in EncodedPaths}

InitEncodedIdle ==
    /\ encoded = <<>>
    /\ decoded = NoDecoded

\* AuthProvider.Validate(token) on the plain-encoding provider.
EncodedValidate ==
    /\ provider = "base64"
    /\ decoded = NoDecoded
    /\ decoded' = B64EncodedAuthProviderValidate(encoded)
    /\ UNCHANGED encoded
    /\ UNCHANGED otherThanEncoded

(***************************************************************************)
(* The router: one request under /webpub/{path}.  The second middleware of *)
(* the subrouter validates the token and either answers itself or calls    *)
(* the handler of the matched route.  getManifest and getAsset are known   *)
(* here by their registration only; what they answer is left open.         *)
(***************************************************************************)
StatusFound == 302
StatusNotFound == 404

RouteRedirect == ""
RouteManifest == "/manifest.json"
RouteAsset == "/{asset:.*}"

Routes == {RouteRedirect, RouteManifest, RouteAsset}

Reply(status, body) == [status |-> status, body |-> body]

NoReply == Reply(0, {})

\* The statuses getManifest and getAsset may answer with.
HandlerStatuses == {StatusOK, StatusNotFound, StatusInternalServerError}

HandlerCall(rt, context) == [route |-> rt, ctx |-> context]

InitRouterIdle ==
    /\ rpc = "idle"
    /\ route = RouteRedirect
    /\ ctx = {}
    /\ handlerCalls = <<>>
    /\ reply = NoReply

\* s.config.Auth.Validate(token) on the provider chosen at start-up.
ConfigAuthValidate ==
    IF provider = "jwt" THEN JWTAuthProviderValidate(token, sharedSecret, now)
    ELSE IF provider = "jwks" THEN JWKSAuthProviderValidate(token, keyset, now)
    ELSE B64EncodedAuthProviderValidate(encoded)

\* A plausible slip: the middleware goes on to the next handler whatever
\* Validate returned.
middlewareFailedNever(result) == FALSE

\* if err != nil
middlewareFailed(result) == result.err # NilError

\* http.Error(w, err.Error(), status)
httpError(e, status) == Reply(status, e)

\* context.WithValue(r.Context(), ContextPathKey, newPath)
WithValue(newPath) == {newPath}

\* The request is matched to a route of the /webpub/{path} subrouter.
Match(rt) ==
    /\ rpc = "idle"
    /\ provider # "none"
    /\ rpc' = "matched"
    /\ route' = rt
    /\ UNCHANGED <<ctx, handlerCalls, reply>>
    /\ UNCHANGED <<authVars, encodedVars>>
    /\ UNCHANGED otherThanRouter

\* The token-validating middleware.
Middleware ==
    /\ rpc = "matched"
    /\ IF provider = "base64"
       THEN decoded' = ConfigAuthValidate /\ UNCHANGED outcome
       ELSE outcome' = ConfigAuthValidate /\ UNCHANGED decoded
    /\ IF middlewareFailed(ConfigAuthValidate)
       THEN /\ reply' = httpError(ConfigAuthValidate.err, ConfigAuthValidate.status)
            /\ rpc' = "done"
            /\ UNCHANGED ctx
       ELSE /\ ctx' = WithValue(ConfigAuthValidate.path)
            /\ rpc' = "next"
            /\ UNCHANGED reply
    /\ UNCHANGED <<route, handlerCalls>>
    /\ UNCHANGED <<provider, sharedSecret, keyset, token, now, encoded>>
    /\ UNCHANGED otherThanRouter

\* next.ServeHTTP: the handler of the matched route.  The handler of the bare
\* route redirects to the manifest route.
Handler(status) ==
    /\ rpc = "next"
    /\ handlerCalls' = Append(handlerCalls, HandlerCall(route, ctx))
    /\ reply' = IF route = RouteRedirect
                THEN Reply(StatusFound, {RouteManifest})
                ELSE Reply(status, {route})
    /\ rpc' = "done"
    /\ UNCHANGED <<route, ctx>>
    /\ UNCHANGED <<authVars, encodedVars>>
    /\ UNCHANGED otherThanRouter

(***************************************************************************)
(* The publication cache.  The index, getOrCreate and the eviction policy  *)
(* follow the cache's contract: at most one construction in flight per     *)
(* key, a fixed capacity, a TTL, admission or rejection of a new entry     *)
(* when full, and OnEvict called on every entry that is removed.  OnEvict  *)
(* itself is CachedPublication.OnEvict.  The Remote and CachedAt fields of *)
(* an entry are written once and read by no operation modelled here.       *)
(***************************************************************************)
MaxCachedPublicationAmount == 10

AllKeys == 1..(MaxCachedPublicationAmount + ExtraKeys)

\* The keys the handlers of a run ask for; the other keys are entries that
\* earlier requests have left in the cache.
ActiveKeys == 1..(ExtraKeys + 1)

AllWorkers == 1..NumWorkers

NoKey == 0

NoWorker == 0

\* A key can have one publication in the index and one more per handler that
\* still holds or builds an earlier one.
Generations == 1..(NumWorkers + 1)

Publication(k, g) == [key |-> k, gen |-> g]

\* The objects of a run: any generation for a key that is asked for, the one
\* cached publication for a key that is not.
Publications ==
    {Publication(k, g) : k \in ActiveKeys, g \in Generations}
        \cup {Publication(k, 1) : k \in AllKeys \ ActiveKeys}

NilPublication == Publication(NoKey, 0)

\* A Publication object: "free" (no such object), "partial" (being
\* constructed) or "ready"; and how many times Close was called on it.
PubState(state, closes) == [state |-> state, closes |-> closes]

FreePub == PubState("free", 0)

NoEviction == [key |-> NoKey, for |-> NoWorker]

Resident(index) == {k \in AllKeys : index[k] # NilPublication}

\* A plausible slip: the callback returns without closing the publication.
OnEvictNoClose(cp, ps) == ps

\* CachedPublication.OnEvict: close the publication, if there is one.
OnEvict(cp, ps) ==
    IF cp # NilPublication
    THEN [ps EXCEPT ![cp].closes = @ + 1]
    ELSE ps

\* The handlers whose getOrCreate call is part of the construction of k.
Attached(k) ==
    {w \in workers : rkey[w] = k /\ wpc[w] \in {"building", "inserting", "waiting"}}

\* The object a new construction for k creates.
FreshPublication(k) ==
    Publication(k, CHOOSE g \in Generations :
                      /\ pubs[Publication(k, g)].state = "free"
                      /\ \A h \in Generations :
                            pubs[Publication(k, h)].state = "free" => g <= h)

\* An object nobody refers to any more is gone.
Collect(ps, index, holders) ==
    LET referenced == {index[k] : k \in AllKeys} \cup {holders[w] : w \in AllWorkers}
    IN  [p \in Publications |-> IF p \in referenced THEN ps[p] ELSE FreePub]

InitCacheIdle ==
    /\ lfu = [k \in AllKeys |-> NilPublication]
    /\ pubs = [p \in Publications |-> FreePub]
    /\ flight = [k \in AllKeys |-> FALSE]
    /\ wpc = [w \in AllWorkers |-> "idle"]
    /\ rkey = [w \in AllWorkers |-> NoKey]
    /\ held = [w \in AllWorkers |-> NilPublication]
    /\ evicting = NoEviction

\* A plausible slip: a caller that misses starts its own construction even when
\* one is already in flight for the key.
GetOrCreateNoFlight(w, k) ==
    /\ wpc[w] = "idle"
    /\ evicting = NoEviction
    /\ rkey' = [rkey EXCEPT ![w] = k]
    /\ IF lfu[k] # NilPublication
       THEN /\ held' = [held EXCEPT ![w] = lfu[k]]
            /\ wpc' = [wpc EXCEPT ![w] = "using"]
            /\ UNCHANGED <<flight, pubs>>
       ELSE /\ flight' = [flight EXCEPT ![k] = TRUE]
            /\ wpc' = [wpc EXCEPT ![w] = "building"]
            /\ held' = [held EXCEPT ![w] = FreshPublication(k)]
            /\ pubs' = [pubs EXCEPT ![FreshPublication(k)] = PubState("partial", 0)]
    /\ UNCHANGED <<keys, workers, lfu, evicting>>
    /\ UNCHANGED otherThanCache

\* getOrCreate(key, constructFn), up to the point where it returns a cached
\* handle, joins the construction in flight, or starts the construction.
GetOrCreate(w, k) ==
    /\ wpc[w] = "idle"
    /\ evicting = NoEviction
    /\ rkey' = [rkey EXCEPT ![w] = k]
    /\ IF lfu[k] # NilPublication
       THEN /\ held' = [held EXCEPT ![w] = lfu[k]]
            /\ wpc' = [wpc EXCEPT ![w] = "using"]
            /\ UNCHANGED <<flight, pubs>>
       ELSE IF flight[k]
       THEN /\ wpc' = [wpc EXCEPT ![w] = "waiting"]
            /\ UNCHANGED <<flight, pubs, held>>
       ELSE /\ flight' = [flight EXCEPT ![k] = TRUE]
            /\ wpc' = [wpc EXCEPT ![w] = "building"]
            /\ held' = [held EXCEPT ![w] = FreshPublication(k)]
            /\ pubs' = [pubs EXCEPT ![FreshPublication(k)] = PubState("partial", 0)]
    /\ UNCHANGED <<keys, workers, lfu, evicting>>
    /\ UNCHANGED otherThanCache

\* constructFn fails: the error goes to every caller of this construction and
\* nothing is cached.
BuildFails(w) ==
    /\ wpc[w] = "building"
    /\ wpc' = [v \in AllWorkers |-> IF v \in Attached(rkey[w]) THEN "failed" ELSE wpc[v]]
    /\ held' = [held EXCEPT ![w] = NilPublication]
    /\ pubs' = Collect(pubs, lfu, held')
    /\ flight' = [flight EXCEPT ![rkey[w]] = FALSE]
    /\ UNCHANGED <<keys, workers, lfu, rkey, evicting>>
    /\ UNCHANGED otherThanCache

\* constructFn succeeds: the publication is complete and goes to the cache.
BuildSucceeds(w) ==
    /\ wpc[w] = "building"
    /\ pubs' = [pubs EXCEPT ![held[w]].state = "ready"]
    /\ wpc' = [wpc EXCEPT ![w] = "inserting"]
    /\ UNCHANGED <<keys, workers, lfu, flight, rkey, held, evicting>>
    /\ UNCHANGED otherThanCache

\* The outcome of w's construction reaches w and every handler waiting for it.
Deliver(w) ==
    /\ wpc' = [v \in AllWorkers |-> IF v \in Attached(rkey[w]) THEN "using" ELSE wpc[v]]
    /\ held' = [v \in AllWorkers |-> IF v \in Attached(rkey[w]) THEN held[w] ELSE held[v]]
    /\ flight' = [flight EXCEPT ![rkey[w]] = FALSE]

\* The new entry is stored: there is room for it.
InsertFree(w) ==
    /\ wpc[w] = "inserting"
    /\ evicting = NoEviction
    /\ Cardinality(Resident(lfu)) < MaxCachedPublicationAmount
    /\ lfu' = [lfu EXCEPT ![rkey[w]] = held[w]]
    /\ Deliver(w)
    /\ UNCHANGED <<keys, workers, pubs, rkey, evicting>>
    /\ UNCHANGED otherThanCache

\* The cache is full and the new entry is not admitted: the callers get the
\* publication, the cache does not keep it.
InsertReject(w) ==
    /\ wpc[w] = "inserting"
    /\ evicting = NoEviction
    /\ Cardinality(Resident(lfu)) >= MaxCachedPublicationAmount
    /\ Deliver(w)
    /\ UNCHANGED <<keys, workers, lfu, pubs, rkey, evicting>>
    /\ UNCHANGED otherThanCache

\* The cache is full and the new entry is admitted: a victim is chosen and its
\* OnEvict runs; the index changes in EndEvict.
InsertEvict(w, victim) ==
    /\ wpc[w] = "inserting"
    /\ evicting = NoEviction
    /\ Cardinality(Resident(lfu)) >= MaxCachedPublicationAmount
    /\ lfu[victim] # NilPublication
    /\ pubs' = OnEvict(lfu[victim], pubs)
    /\ evicting' = [key |-> victim, for |-> w]
    /\ UNCHANGED <<keys, workers, lfu, flight, wpc, rkey, held>>
    /\ UNCHANGED otherThanCache

\* The TTL of an entry has run out (found by the sweep or by the next access):
\* its OnEvict runs; the index changes in EndEvict.
Expire(k) ==
    /\ evicting = NoEviction
    /\ lfu[k] # NilPublication
    /\ pubs' = OnEvict(lfu[k], pubs)
    /\ evicting' = [key |-> k, for |-> NoWorker]
    /\ UNCHANGED <<keys, workers, lfu, flight, wpc, rkey, held>>
    /\ UNCHANGED otherThanCache

\* The removed entry leaves the index; an entry that was waiting for the room
\* takes its place.
EndEvict ==
    /\ evicting # NoEviction
    /\ IF evicting.for = NoWorker
       THEN /\ lfu' = [lfu EXCEPT ![evicting.key] = NilPublication]
            /\ UNCHANGED <<wpc, held, flight>>
       ELSE /\ lfu' = [lfu EXCEPT ![evicting.key] = NilPublication,
                                  ![rkey[evicting.for]] = held[evicting.for]]
            /\ Deliver(evicting.for)
    /\ pubs' = Collect(pubs, lfu', held')
    /\ evicting' = NoEviction
    /\ UNCHANGED <<keys, workers, rkey>>
    /\ UNCHANGED otherThanCache

\* The handler reads a resource out of the publication it was handed; a read
\* from a closed publication is a use after release.
Use(w) ==
    /\ wpc[w] = "using"
    /\ wpc' = [wpc EXCEPT ![w] = IF pubs[held[w]].closes > 0 THEN "misused" ELSE "using"]
    /\ UNCHANGED <<keys, workers, lfu, pubs, flight, rkey, held, evicting>>
    /\ UNCHANGED otherThanCache

\* The response is finished (or the error reported): the handler lets go.
Finish(w) ==
    /\ wpc[w] \in {"using", "misused", "failed"}
    /\ wpc' = [wpc EXCEPT ![w] = "idle"]
    /\ held' = [held EXCEPT ![w] = NilPublication]
    /\ rkey' = [rkey EXCEPT ![w] = NoKey]
    /\ pubs' = Collect(pubs, lfu, held')
    /\ UNCHANGED <<keys, workers, lfu, flight, evicting>>
    /\ UNCHANGED otherThanCache

\* No handler and no key: the cache of a run that does not use it.
InitIdleCache ==
    /\ keys = {}
    /\ workers = {}
    /\ InitCacheIdle

NextCache ==
    \/ \E w \in workers, k \in keys : GetOrCreate(w, k)
    \/ \E w \in workers : BuildFails(w)
    \/ \E w \in workers : BuildSucceeds(w)
    \/ \E w \in workers : InsertFree(w)
    \/ \E w \in workers : InsertReject(w)
    \/ \E w \in workers, victim \in keys : InsertEvict(w, victim)
    \/ \E k \in keys : Expire(k)
    \/ EndEvict
    \/ \E w \in workers : Use(w)
    \/ \E w \in workers : Finish(w)

(***************************************************************************)
(* Start-up of the serve command (RunE) and serve.Remote.                  *)
(***************************************************************************)

\* url.SchemeFile, SchemeHTTP, SchemeHTTPS, SchemeS3, SchemeGS
SchemeFile == "file"
SchemeHTTP == "http"
SchemeHTTPS == "https"
SchemeS3 == "s3"
SchemeGS == "gs"

RemoteSchemes == {SchemeFile, SchemeHTTP, SchemeHTTPS, SchemeS3, SchemeGS}

\* strings.ToLower on the strings the model uses.
ToLower(v) ==
    CASE v = "HTTP" -> "http"
      [] v = "HTTPS" -> "https"
      [] v = "FTP" -> "ftp"
      [] OTHER -> v

\* filepath.Clean on the directories the model uses.
Clean(path) == IF path = "/pubs/" THEN "/pubs" ELSE path

\* A client handle of a Remote: nil, or the client NewHTTPClient built.
NilClient == [present |-> FALSE, Whitelist |-> <<>>]

HTTPClient(wl) == [present |-> TRUE, Whitelist |-> wl]

\* serve.Remote; S3 and GCS say whether the client pointer is non-nil.
Remote(dir, s3, gcs, http, httpEnabled, httpsEnabled) ==
    [LocalDirectory |-> dir, S3 |-> s3, GCS |-> gcs, HTTP |-> http,
     HTTPEnabled |-> httpEnabled, HTTPSEnabled |-> httpsEnabled]

ZeroRemote == Remote("", FALSE, FALSE, NilClient, FALSE, FALSE)

\* A plausible slip: https gated by the flag of http.
AcceptsSchemeOneFlag(r, scheme) ==
    CASE scheme = SchemeFile -> r.LocalDirectory # ""
      [] scheme = SchemeS3 -> r.S3
      [] scheme = SchemeGS -> r.GCS
      [] scheme = SchemeHTTP -> r.HTTPEnabled /\ r.HTTP # NilClient
      [] scheme = SchemeHTTPS -> r.HTTPEnabled /\ r.HTTP # NilClient
      [] OTHER -> FALSE

\* Remote.AcceptsScheme(scheme)
AcceptsScheme(r, scheme) ==
    CASE scheme = SchemeFile -> r.LocalDirectory # ""
      [] scheme = SchemeS3 -> r.S3
      [] scheme = SchemeGS -> r.GCS
      [] scheme = SchemeHTTP -> r.HTTPEnabled /\ r.HTTP # NilClient
      [] scheme = SchemeHTTPS -> r.HTTPSEnabled /\ r.HTTP # NilClient
      [] OTHER -> FALSE

\* An entry of --http-host-whitelist as typed: the text before "://", the
\* authority, the path, and whether net/url can parse the text at all.
RawURL(scheme, host, path, parses) ==
    [scheme |-> scheme, host |-> host, path |-> path, parses |-> parses]

RawBooks == RawURL("https", "example.com", PathBooks, TRUE)
RawUpperCase == RawURL("HTTP", "example.com", <<>>, TRUE)
RawFTP == RawURL("FTP", "example.com", <<>>, TRUE)
RawNoHost == RawURL("https", "", PathBooks, TRUE)
RawUnparseable == RawURL("https", "example.com", <<"/", "%", "z", "z">>, FALSE)

RawURLs == {RawBooks, RawUpperCase, RawFTP, RawNoHost, RawUnparseable}

ErrURLParse == "parse error"

\* nurl.Parse(rawURL): the scheme comes out in lower case.
ParseURL(raw) ==
    IF ~raw.parses THEN [Scheme |-> "", Host |-> "", Path |-> <<>>, err |-> ErrURLParse]
    ELSE [Scheme |-> ToLower(raw.scheme), Host |-> raw.host, Path |-> raw.path, err |-> Nil]

\* Errors RunE returns, by the text of their message.
ErrInvalidScheme == "invalid scheme"
ErrNoDirectory == "given directory does not exist"
ErrStat == "failed to stat"
ErrNotDirectory == "given path is not a directory"
ErrFileWithoutDirectory == "file scheme is enabled, but no local directory was specified"
ErrS3Credentials == "S3 credentials retrieval failed"
ErrLoadConfig == "log.Fatal: LoadDefaultConfig"
ErrGCSClient == "GCS client creation failed"
ErrInvalidWhitelistURL == "invalid URL in whitelist"
ErrWhitelistURLScheme == "whitelisted URL must have http or https scheme"
ErrWhitelistURLHost == "whitelisted URL must have a host"
ErrJWTProvider == "failed creating JWT auth provider"
ErrJWKSURL == "jwks-url must be specified in jwks mode"
ErrJWKSProvider == "failed creating JWKS auth provider"
ErrInvalidMode == "invalid access mode"

WhitelistFlagErrors == {ErrInvalidWhitelistURL, ErrWhitelistURLScheme, ErrWhitelistURLHost}

WarnLocalDirectory == "local directory specified, but file scheme is not enabled"
WarnHTTPClient == "HTTP client creation failed, HTTP support will be disabled"

\* The schemes slice RunE builds from --scheme.
schemesOf(flag) == {ToLower(v) : v \in flag}

\* The loop over --scheme.
schemesError(flag) ==
    IF \E v \in flag : ToLower(v) \notin RemoteSchemes THEN ErrInvalidScheme ELSE Nil

\* The checks of --file-directory; stat is what os.Stat finds at the path.
directoryError(dirFlag, schemes, stat) ==
    IF dirFlag # ""
    THEN CASE stat = "missing" -> ErrNoDirectory
           [] stat = "denied" -> ErrStat
           [] stat = "file" -> ErrNotDirectory
           [] OTHER -> Nil
    ELSE IF SchemeFile \in schemes THEN ErrFileWithoutDirectory ELSE Nil

\* The check of one entry of --http-host-whitelist.
whitelistEntryError(raw) ==
    LET parsedURL == ParseURL(raw)
    IN  IF parsedURL.err # Nil THEN ErrInvalidWhitelistURL
        ELSE IF parsedURL.Scheme # "http" /\ parsedURL.Scheme # "https" THEN ErrWhitelistURLScheme
        ELSE IF parsedURL.Host = "" THEN ErrWhitelistURLHost
        ELSE Nil

\* A plausible slip: a bad entry is skipped over instead of ending the start-up.
whitelistErrorSkipped(wlFlag) == Nil

\* The loop over --http-host-whitelist: the error of the first bad entry.
whitelistError(wlFlag) ==
    LET bad == {i \in 1..Len(wlFlag) : whitelistEntryError(wlFlag[i]) # Nil}
    IN  IF bad = {} THEN Nil
        ELSE whitelistEntryError(wlFlag[CHOOSE i \in bad : \A j \in bad : i <= j])

\* urlWhitelist, as handed to NewHTTPClient.
urlWhitelist(wlFlag) ==
    [i \in 1..Len(wlFlag) |-> URL(ParseURL(wlFlag[i]).Host, ParseURL(wlFlag[i]).Path)]

\* The switch on --mode; providerOk says whether the provider's constructor
\* (secret decoding, first fetch of the key set) succeeds.
modeError(m, jwks, providerOk) ==
    CASE m = "base64" -> Nil
      [] m = "jwt" -> IF providerOk THEN Nil ELSE ErrJWTProvider
      [] m = "jwks" -> IF jwks = "" THEN ErrJWKSURL
                       ELSE IF providerOk THEN Nil ELSE ErrJWKSProvider
      [] OTHER -> ErrInvalidMode

\* How a run of RunE ends.
Started(how, e, r, auth, dir, warnings) ==
    [started |-> how, err |-> e, remote |-> r, Auth |-> auth,
     fileDirectoryFlag |-> dir, logged |-> warnings]

\* RunE, from the parsed flags and what the environment answers: stat for
\* os.Stat, s3env for the S3 configuration and credentials, gcsOk for
\* storage.NewClient, providerOk for the auth provider's constructor.
Startup(sFlag, dirFlag, wlFlag, m, jwks, stat, s3env, gcsOk, providerOk) ==
    LET schemes == schemesOf(sFlag)
        dir == IF dirFlag # "" THEN Clean(dirFlag) ELSE dirFlag
        warnDir == IF dirFlag # "" /\ SchemeFile \notin schemes
                   THEN {WarnLocalDirectory} ELSE {}
        fail(e, d, w) == Started("failed", e, ZeroRemote, "none", d, w)
        r == Remote(dir,
                    SchemeS3 \in schemes,
                    SchemeGS \in schemes,
                    HTTPClient(urlWhitelist(wlFlag)),
                    SchemeHTTP \in schemes,
                    SchemeHTTPS \in schemes)
    IN  IF schemesError(sFlag) # Nil
          THEN fail(schemesError(sFlag), dirFlag, {})
        ELSE IF directoryError(dirFlag, schemes, stat) # Nil
          THEN fail(directoryError(dirFlag, schemes, stat), dirFlag, warnDir)
        ELSE IF SchemeS3 \in schemes /\ s3env = "noconfig"
          THEN Started("exited", ErrLoadConfig, ZeroRemote, "none", dir, warnDir)
        ELSE IF SchemeS3 \in schemes /\ s3env = "nocredentials"
          THEN fail(ErrS3Credentials, dir, warnDir)
        ELSE IF SchemeGS \in schemes /\ ~gcsOk
          THEN fail(ErrGCSClient, dir, warnDir)
        ELSE IF whitelistError(wlFlag) # Nil
          THEN fail(whitelistError(wlFlag), dir, warnDir)
        ELSE IF modeError(m, jwks, providerOk) # Nil
          THEN fail(modeError(m, jwks, providerOk), dir, warnDir)
        ELSE Started("serving", Nil, r, m, dir, warnDir)

\* No question put to the Remote yet.
NoAnswer == [scheme |-> "", accepted |-> FALSE, asked |-> FALSE]

Answer(scheme, accepted) == [scheme |-> scheme, accepted |-> accepted, asked |-> TRUE]

InitStartIdle ==
    /\ schemeFlag = {}
    /\ fileDirectoryFlag = ""
    /\ httpHostWhitelistFlag = <<>>
    /\ mode = ""
    /\ jwksURL = ""
    /\ started = "no"
    /\ startErr = Nil
    /\ remote = ZeroRemote
    /\ serverAuth = "none"
    /\ logged = {}
    /\ answer = NoAnswer

StatResults == {"directory", "missing", "denied", "file"}
S3Environments == {"ok", "noconfig", "nocredentials"}

\* serveCmd.RunE, up to the server listening or the command giving up.
RunE(stat, s3env, gcsOk, providerOk) ==
    /\ started = "flags"
    /\ LET end == Startup(schemeFlag, fileDirectoryFlag, httpHostWhitelistFlag, mode,
                          jwksURL, stat, s3env, gcsOk, providerOk)
       IN  /\ started' = end.started
           /\ startErr' = end.err
           /\ remote' = end.remote
           /\ serverAuth' = end.Auth
           /\ fileDirectoryFlag' = end.fileDirectoryFlag
           /\ logged' = end.logged
    /\ UNCHANGED <<schemeFlag, httpHostWhitelistFlag, mode, jwksURL, answer>>
    /\ UNCHANGED otherThanStart

\* The schemes a request may ask the Remote about.
AskedSchemes == RemoteSchemes \cup {"ftp", "HTTP"}

\* A handler of the running server asks Remote.AcceptsScheme(scheme).
AcceptsSchemeCall(scheme) ==
    /\ started = "serving"
    /\ answer' = Answer(scheme, AcceptsScheme(remote, scheme))
    /\ UNCHANGED <<schemeFlag, fileDirectoryFlag, httpHostWhitelistFlag, mode, jwksURL,
                   started, startErr, remote, serverAuth, logged>>
    /\ UNCHANGED otherThanStart

(***************************************************************************)
(* Specifications.  Each one runs one component; the variables of the      *)
(* other components keep their initial values.                             *)
(***************************************************************************)

InitFetch ==
    /\ \E auth \in AuthorizationValues, wl \in FetchWhitelists, bypass \in BOOLEAN :
          NewHTTPClient(auth, wl, bypass)
    /\ InitFetchIdle
    /\ InitAuthIdle
    /\ InitIdleCache
    /\ InitEncodedIdle
    /\ InitRouterIdle
    /\ InitStartIdle

NextFetch ==
    \/ \E url \in FetchURLs : Do(url)
    \/ RoundTrip
    \/ \E target \in DialTargets : Dial(target)
    \/ WriteRequest
    \/ \E location \in FetchURLs : Receive(302, location)
    \/ Receive(200, URL("", <<>>))
    \/ Redirect

SpecFetch == InitFetch /\ [][NextFetch]_vars

InitWhitelist ==
    /\ whitelist \in Whitelists
    /\ Authorization = ""
    /\ bypassSafeSocketControl = FALSE
    /\ Control = dialerControl(FALSE)
    /\ pc = "input"
    /\ callerReq = NoRequest
    /\ req \in {Request(u, "") : u \in URLs}
    /\ via = 0
    /\ transportReq = NoRequest
    /\ dialed = NoDial
    /\ conn = NoDial
    /\ wire = NoWire
    /\ pending = NoResponse
    /\ resp = NilResponse
    /\ err = Nil
    /\ allowed = Nil
    /\ InitAuthIdle
    /\ InitIdleCache
    /\ InitEncodedIdle
    /\ InitRouterIdle
    /\ InitStartIdle

NextWhitelist == ValidateURL

SpecWhitelist == InitWhitelist /\ [][NextWhitelist]_vars
InitAuth ==
    /\ \/ /\ provider = "jwt"
          /\ sharedSecret \in Secrets
          /\ keyset = {}
          /\ token \in JWTTokens
       \/ /\ provider = "jwks"
          /\ sharedSecret = ""
          /\ keyset = {"k1"}
          /\ token \in JWKSTokens
    /\ now = 0
    /\ outcome = NoOutcome
    /\ InitFetchIdle
    /\ NewHTTPClient("", <<>>, FALSE)
    /\ InitIdleCache
    /\ InitEncodedIdle
    /\ InitRouterIdle
    /\ InitStartIdle

NextAuth ==
    \/ AuthValidate
    \/ Tick
    \/ \E ks \in SUBSET KeyIDs : RefreshKeyset(ks)

SpecAuth == InitAuth /\ [][NextAuth]_vars
\* Concurrent handlers asking for a few keys of a cache that earlier requests,
\* one after the other, have filled to one entry below its capacity.
InitCache ==
    /\ keys = ActiveKeys
    /\ workers = AllWorkers
    /\ lfu = [k \in AllKeys |-> IF k \in ActiveKeys THEN NilPublication ELSE Publication(k, 1)]
    /\ pubs = [p \in Publications |->
                  IF p.key \notin ActiveKeys THEN PubState("ready", 0) ELSE FreePub]
    /\ flight = [k \in AllKeys |-> FALSE]
    /\ wpc = [w \in AllWorkers |-> "idle"]
    /\ rkey = [w \in AllWorkers |-> NoKey]
    /\ held = [w \in AllWorkers |-> NilPublication]
    /\ evicting = NoEviction
    /\ InitFetchIdle
    /\ NewHTTPClient("", <<>>, FALSE)
    /\ InitAuthIdle
    /\ InitEncodedIdle
    /\ InitRouterIdle
    /\ InitStartIdle

SpecCache == InitCache /\ [][NextCache]_vars

\* The plain-encoding validator on one token.
InitEncoded ==
    /\ provider = "base64"
    /\ sharedSecret = ""
    /\ keyset = {}
    /\ token = NoToken
    /\ now = 0
    /\ outcome = NoOutcome
    /\ encoded \in EncodedTokens
    /\ decoded = NoDecoded
    /\ InitRouterIdle
    /\ InitStartIdle
    /\ InitFetchIdle
    /\ NewHTTPClient("", <<>>, FALSE)
    /\ InitIdleCache

NextEncoded == EncodedValidate

SpecEncoded == InitEncoded /\ [][NextEncoded]_vars

\* Any of the three validators on one token.
InitValidate == InitAuth \/ InitEncoded

NextValidate == NextAuth \/ NextEncoded

SpecValidate == InitValidate /\ [][NextValidate]_vars

\* One request under /webpub/{path}, with any of the three validators.
InitRouter == InitValidate

NextRouter ==
    \/ \E rt \in Routes : Match(rt)
    \/ Middleware
    \/ \E status \in HandlerStatuses : Handler(status)

SpecRouter == InitRouter /\ [][NextRouter]_vars

\* The serve command started with any flags, then questions to its Remote.
SchemeFlagValues == {"file", "HTTP", "https", "s3", "gs", "ftp"}
DirectoryFlagValues == {"", "/pubs/"}
ModeFlagValues == {"base64", "jwt", "jwks", "basic"}
JWKSURLFlagValues == {"", "https://example.com/keys"}

InitStart ==
    /\ schemeFlag \in SUBSET SchemeFlagValues
    /\ fileDirectoryFlag \in DirectoryFlagValues
    /\ httpHostWhitelistFlag \in SeqsUpTo(RawURLs, MaxWhitelistFlagLen)
    /\ mode \in ModeFlagValues
    /\ jwksURL \in JWKSURLFlagValues
    /\ started = "flags"
    /\ startErr = Nil
    /\ remote = ZeroRemote
    /\ serverAuth = "none"
    /\ logged = {}
    /\ answer = NoAnswer
    /\ InitFetchIdle
    /\ NewHTTPClient("", <<>>, FALSE)
    /\ InitAuthIdle
    /\ InitIdleCache
    /\ InitEncodedIdle
    /\ InitRouterIdle

NextStart ==
    \/ \E stat \in StatResults, s3env \in S3Environments, gcsOk \in BOOLEAN,
          providerOk \in BOOLEAN : RunE(stat, s3env, gcsOk, providerOk)
    \/ \E scheme \in AskedSchemes : AcceptsSchemeCall(scheme)

SpecStart == InitStart /\ [][NextStart]_vars

\* Any Remote value behind a running server, and questions to it.
LocalDirectories == {"", "/pubs"}

Remotes ==
    {Remote(dir, s3, gcs, http, httpEnabled, httpsEnabled) :
        dir \in LocalDirectories, s3 \in BOOLEAN, gcs \in BOOLEAN,
        http \in {NilClient, HTTPClient(<<>>)},
        httpEnabled \in BOOLEAN, httpsEnabled \in BOOLEAN}

InitRemote ==
    /\ schemeFlag = {}
    /\ fileDirectoryFlag = ""
    /\ httpHostWhitelistFlag = <<>>
    /\ mode = "base64"
    /\ jwksURL = ""
    /\ started = "serving"
    /\ startErr = Nil
    /\ remote \in Remotes
    /\ serverAuth = "base64"
    /\ logged = {}
    /\ answer = NoAnswer
    /\ InitFetchIdle
    /\ NewHTTPClient("", <<>>, FALSE)
    /\ InitAuthIdle
    /\ InitIdleCache
    /\ InitEncodedIdle
    /\ InitRouterIdle

NextRemote == \E scheme \in AskedSchemes : AcceptsSchemeCall(scheme)

SpecRemote == InitRemote /\ [][NextRemote]_vars


(***************************************************************************)
(* Properties of the fetch client.                                         *)
(***************************************************************************)
WhitelistErrors == {ErrWhitelistRequest, ErrWhitelistRedirect}

\* C1 as stated: with a non-empty allow-list no request for a non-allowed URL is
\* handed to the underlying transport, every hop that goes on is allowed, and a
\* fetch ended by an allow-list refusal gives the caller no response at all.
C1_NoResponseOnRefusal ==
    Len(whitelist) > 0 =>
        /\ transportReq # NoRequest => validateAgainstWhitelist(transportReq.URL, whitelist)
        /\ (pc = "send" /\ via > 0) => validateAgainstWhitelist(req.URL, whitelist)
        /\ (pc = "done" /\ err \in WhitelistErrors) => resp = NilResponse

\* C1 amended: with a non-empty allow-list no request for a non-allowed URL is
\* handed to the underlying transport or written to a connection, every hop
\* that goes on has passed the same predicate, a fetch that returns without
\* error returns the response of an allowed URL, and a fetch ended by an
\* allow-list refusal returns the error with either no response (refused in
\* RoundTrip) or only the refused redirect's own 302 response, which comes from
\* the previous, allowed hop and has its body already closed.
C1_RedirectFailsClosed ==
    Len(whitelist) > 0 =>
        /\ transportReq # NoRequest => validateAgainstWhitelist(transportReq.URL, whitelist)
        /\ wire # NoWire => validateAgainstWhitelist(wire.URL, whitelist)
        /\ (pc = "send" /\ via > 0) => validateAgainstWhitelist(req.URL, whitelist)
        /\ (pc = "done" /\ err = Nil) =>
              /\ resp # NilResponse
              /\ resp.BodyOpen
              /\ validateAgainstWhitelist(resp.URL, whitelist)
        /\ (pc = "done" /\ err = ErrWhitelistRequest) => resp = NilResponse
        /\ (pc = "done" /\ err = ErrWhitelistRedirect) =>
              /\ resp # NilResponse
              /\ resp.Status = 302
              /\ ~resp.BodyOpen
              /\ validateAgainstWhitelist(resp.URL, whitelist)

\* A redirect from an allowed URL into a non-allowed one has been refused.
C1_Witness ==
    /\ Len(whitelist) > 0
    /\ pc = "done"
    /\ via >= 1
    /\ err = ErrWhitelistRedirect
    /\ callerReq.URL = URL("example.com", PathBooksEpub)

\* The condition under which the allow-list permits a URL, stated directly.
Permitted(url, wl) ==
    \/ Len(wl) = 0
    \/ \E i \in 1..Len(wl) :
          /\ wl[i].Host = url.Host
          /\ \/ wl[i].Path = <<>>
             \/ HasPrefix(url.Path, wl[i].Path)

\* C2: validateAgainstWhitelist returns true exactly when the list is empty or
\* some entry has the request's host and no path or a path the request path
\* starts with; with the single entry example.com/books, /books/a.epub is
\* allowed and /other/a.epub is rejected.
C2_WhitelistPredicate ==
    pc = "validated" =>
        /\ allowed = Permitted(req.URL, whitelist)
        /\ (whitelist = <<URL("example.com", PathBooks)>>
              /\ req.URL = URL("example.com", PathBooksEpub)) => allowed = TRUE
        /\ (whitelist = <<URL("example.com", PathBooks)>>
              /\ req.URL = URL("example.com", PathOtherEpub)) => allowed = FALSE

\* The documented example: /other/a.epub is rejected by the list [example.com/books].
C2_Witness ==
    /\ pc = "validated"
    /\ whitelist = <<URL("example.com", PathBooks)>>
    /\ req.URL = URL("example.com", PathOtherEpub)
    /\ allowed = FALSE

\* The destinations the gate is documented to let through.
SafeDestination(target) ==
    /\ target.network \in {"tcp4", "tcp6"}
    /\ Len(target.address) = 2
    /\ target.address[1] \in DOMAIN IPClass
    /\ IPClass[target.address[1]] = "public"
    /\ target.address[2] \in {"80", "443"}

\* C3: with the bypass off every connection opened is to a tcp4/tcp6, literal,
\* public IP on port 80 or 443, such a destination is accepted and every other
\* one is refused with an error; with the bypass on no destination is refused.
C3_ConnectionGate ==
    /\ ~bypassSafeSocketControl =>
          /\ conn # NoDial => SafeDestination(conn)
          /\ (dialed # NoDial /\ SafeDestination(dialed)) => conn = dialed
          /\ (dialed # NoDial /\ ~SafeDestination(dialed)) =>
                /\ pc = "done"
                /\ err \in GateErrors
                /\ resp = NilResponse
                /\ conn = NoDial
    /\ bypassSafeSocketControl =>
          /\ dialed # NoDial => conn = dialed
          /\ err \notin GateErrors

\* With the bypass off, a dial to a public address on port 8080 has been refused.
C3_Witness ==
    /\ ~bypassSafeSocketControl
    /\ pc = "done"
    /\ dialed = DialTarget("tcp4", <<"93.184.216.34", "8080">>)
    /\ err = "not a safe port number"

\* C4: refusal precedes transmission.  Request bytes are written only for the
\* current hop's allowed URL on a connection that passed the gate; a request
\* whose URL is not allowed ends in RoundTrip with a nil response and an error
\* without reaching the underlying transport; a dial to a destination the gate
\* refuses ends with a nil response and an error and nothing written.
C4_RejectBeforeSend ==
    [][ /\ (wire' # NoWire /\ wire' # wire) =>
              /\ wire'.URL = req.URL
              /\ validateAgainstWhitelist(wire'.URL, whitelist)
              /\ wire'.conn = conn
              /\ ~bypassSafeSocketControl => SafeDestination(wire'.conn)
        /\ (pc = "send" /\ ~validateAgainstWhitelist(req.URL, whitelist)) =>
              /\ pc' = "done"
              /\ resp' = NilResponse
              /\ err' = ErrWhitelistRequest
              /\ transportReq' = transportReq
              /\ wire' = NoWire
        /\ (pc = "transport" /\ ~bypassSafeSocketControl /\ ~SafeDestination(dialed')) =>
              /\ pc' = "done"
              /\ resp' = NilResponse
              /\ err' \in GateErrors
              /\ conn' = NoDial
              /\ wire' = NoWire
      ]_vars

\* A dial to a private-range address (10.0.0.0/8) was refused with nothing sent.
C4_Witness ==
    /\ ~bypassSafeSocketControl
    /\ pc = "done"
    /\ dialed = DialTarget("tcp4", <<"10.0.0.5", "443">>)
    /\ err = "not a public IP address"
    /\ resp = NilResponse
    /\ wire = NoWire

(***************************************************************************)
(* Properties of the token validators.                                     *)
(***************************************************************************)
Validated == outcome # NoOutcome

\* The token is well formed and signed, with the algorithm the provider
\* verifies, by the key the provider verifies with.
Genuine ==
    /\ token.form = "wellformed"
    /\ \/ /\ provider = "jwt"
          /\ token.alg = "HS256"
          /\ token.signedWith = sharedSecret
       \/ /\ provider = "jwks"
          /\ token.alg = "RS256"
          /\ token.kid \in keyset
          /\ token.signedWith = token.kid

Expired == token.exp # {} /\ \A e \in token.exp : now >= e

NotYetValid == token.nbf # {} /\ \A n \in token.nbf : now < n

\* C5: in shared-secret mode Validate returns a nil error, and then a path,
\* only for a token whose header algorithm is HS256 and whose signature was
\* made with the configured secret; a token with any other algorithm or
\* signed with another key is rejected with an empty path.
C5_HS256Pinned ==
    (provider = "jwt" /\ Validated) =>
        /\ outcome.err = NilError =>
              /\ token.form = "wellformed"
              /\ token.alg = "HS256"
              /\ token.signedWith = sharedSecret
              /\ outcome.path # ""
        /\ (token.alg # "HS256" \/ token.signedWith # sharedSecret) =>
              /\ outcome.err # NilError
              /\ outcome.path = ""

\* An HS384 token made with the configured secret itself has been rejected.
C5_Witness ==
    /\ provider = "jwt"
    /\ Validated
    /\ token.form = "wellformed"
    /\ token.alg = "HS384"
    /\ token.signedWith = sharedSecret
    /\ ~Expired /\ ~NotYetValid
    /\ outcome.err # NilError
    /\ outcome.path = ""

\* The errors Validate makes itself, after the parser has succeeded.
OwnErrors == {ErrInvalidJWT, ErrSubjectExtraction, ErrSubjectEmpty}

ParserFailed == Validated /\ outcome.err # NilError /\ outcome.err \cap OwnErrors = {}

\* C9: for both signed-token validators the status of a parser failure follows
\* its class: malformed, invalid signature and key-not-found give 400, expired
\* gives 410, every other failure 500; a malformed token, a token naming an
\* unknown key, a token with a wrong signature each get 400, and a genuine
\* token past its expiry gets 410, never 400 or 500.
C9_StatusByFailureClass ==
    /\ ParserFailed =>
          /\ ( \/ errorsIs(outcome.err, ErrTokenMalformed)
               \/ errorsIs(outcome.err, ErrTokenSignatureInvalid)
               \/ errorsIs(outcome.err, ErrKeyNotFound) ) => outcome.status = StatusBadRequest
          /\ errorsIs(outcome.err, ErrTokenExpired) => outcome.status = StatusGone
          /\ ( /\ ~errorsIs(outcome.err, ErrTokenMalformed)
               /\ ~errorsIs(outcome.err, ErrTokenSignatureInvalid)
               /\ ~errorsIs(outcome.err, ErrKeyNotFound)
               /\ ~errorsIs(outcome.err, ErrTokenExpired) ) =>
                 outcome.status = StatusInternalServerError
    /\ (Validated /\ token.form = "segments") =>
          /\ ParserFailed
          /\ outcome.status = StatusBadRequest
    /\ (Validated /\ provider = "jwks" /\ token.form = "wellformed"
          /\ token.kid # "" /\ token.kid \notin keyset) =>
          /\ ParserFailed
          /\ outcome.status = StatusBadRequest
    /\ (Validated /\ provider = "jwt" /\ token.form = "wellformed"
          /\ token.alg = "HS256" /\ token.signedWith # sharedSecret) =>
          /\ ParserFailed
          /\ outcome.status = StatusBadRequest
    /\ (Validated /\ Genuine /\ Expired) =>
          /\ ParserFailed
          /\ outcome.status = StatusGone
          /\ outcome.path = ""

\* A genuine shared-secret token, valid at time 0, is validated after its expiry.
C9_Witness ==
    /\ provider = "jwt"
    /\ Validated
    /\ Genuine
    /\ token.exp = {1}
    /\ now = 1
    /\ outcome.status = StatusGone

StringSubject == token.sub.kind = "string" /\ token.sub.value # ""

NoSubject == token.sub.kind = "absent" \/ (token.sub.kind = "string" /\ token.sub.value = "")

\* C10 as stated: a token correctly signed with the configured secret and not
\* expired validates to (S, 200, nil) when its subject S is present and
\* non-empty, and to an empty path, 400 and an error when it is missing or empty.
C10_SignedAndUnexpired ==
    (provider = "jwt" /\ Validated /\ Genuine /\ ~Expired) =>
        /\ StringSubject => outcome = Outcome(token.sub.value, StatusOK, NilError)
        /\ NoSubject =>
              /\ outcome.path = ""
              /\ outcome.status = StatusBadRequest
              /\ outcome.err # NilError

\* C10 amended: the same, for a token that is also already valid, that is,
\* whose not-before time, when it carries one, has been reached.
C10_SignedAndCurrent ==
    (provider = "jwt" /\ Validated /\ Genuine /\ ~Expired /\ ~NotYetValid) =>
        /\ StringSubject => outcome = Outcome(token.sub.value, StatusOK, NilError)
        /\ NoSubject =>
              /\ outcome.path = ""
              /\ outcome.status = StatusBadRequest
              /\ outcome.err # NilError

\* A genuine, current token with a subject has been validated to its subject.
C10_Witness ==
    /\ provider = "jwt"
    /\ Genuine
    /\ token.exp = {MaxTime}
    /\ token.nbf = {1}
    /\ now = 1
    /\ outcome = Outcome("file:///book.epub", StatusOK, NilError)

(***************************************************************************)
(* Properties of the publication cache.                                    *)
(***************************************************************************)
\* The handlers that are running the construction for k, in a given state.
Constructing(position, rk, k) ==
    {w \in workers : rk[w] = k /\ position[w] \in {"building", "inserting"}}

\* C6: concurrent getOrCreate calls on one uncached key run the construction
\* once: at most one handler constructs a key at a time, a caller that misses
\* while a construction is in flight joins it, every caller of a construction
\* receives its outcome in the same step and it is the same outcome (the same
\* complete publication, or the failure), a failed construction leaves nothing
\* cached and nothing in flight, and a caller that misses with no construction
\* in flight (as after a failure) starts a fresh one.
C6_SingleFlight ==
    [][/\ \A k \in keys :
            /\ Cardinality(Constructing(wpc, rkey, k)) <= 1
            /\ Cardinality(Constructing(wpc', rkey', k)) <= 1
       /\ \A w \in workers :
            (wpc[w] = "idle" /\ wpc'[w] # "idle" /\ lfu[rkey'[w]] = NilPublication)
                => IF Constructing(wpc, rkey, rkey'[w]) # {}
                   THEN wpc'[w] = "waiting"
                   ELSE wpc'[w] = "building"
       /\ \A k \in keys : \A v, w \in Attached(k) :
            wpc'[w] \notin {"building", "inserting", "waiting"}
                => /\ wpc'[w] \in {"using", "failed"}
                   /\ wpc'[v] = wpc'[w]
                   /\ held'[v] = held'[w]
       /\ \A w \in workers :
            wpc'[w] = "using" => pubs'[held'[w]].state = "ready"
       /\ \A w \in workers :
            (wpc[w] = "building" /\ wpc'[w] = "failed")
                => /\ lfu'[rkey[w]] = NilPublication
                   /\ ~flight'[rkey[w]]
                   /\ \A v \in workers : held'[v] = NilPublication \/ held'[v] # held[w]
      ]_vars

\* Two handlers hold the same open publication and the cache did not keep it
\* (it was not admitted): only the one construction they both called can have
\* handed it to them.
C6_Witness ==
    \E v, w \in workers :
        /\ v # w
        /\ wpc[v] = "using"
        /\ wpc[w] = "using"
        /\ held[v] = held[w]
        /\ lfu[held[v].key] # held[v]
        /\ pubs[held[v]] = PubState("ready", 0)

\* C7: a handler that obtained a cached publication before its entry was
\* evicted or expired never reads from a closed publication.
C7_NoUseAfterRelease ==
    \A w \in AllWorkers : wpc[w] # "misused"

\* C8: the cache never holds more than MaxCachedPublicationAmount entries; an
\* entry that leaves the index has had its publication closed exactly once
\* when it leaves; no publication is ever closed twice; an entry that stays is
\* open; a publication is closed only as the first step of the removal of its
\* entry, and the step that ends the removal takes the entry out of the index.
C8_ReleasedOnceAndBounded ==
    [][/\ Cardinality(Resident(lfu)) <= MaxCachedPublicationAmount
       /\ Cardinality(Resident(lfu')) <= MaxCachedPublicationAmount
       /\ \A k \in AllKeys :
            (lfu[k] # NilPublication /\ lfu'[k] # lfu[k])
                => pubs[lfu[k]] = PubState("ready", 1)
       /\ \A p \in Publications : pubs'[p].closes <= 1
       /\ \A k \in AllKeys :
            (lfu'[k] # NilPublication /\ evicting'.key # k) => pubs'[lfu'[k]].closes = 0
       /\ \A p \in Publications :
            pubs'[p].closes > pubs[p].closes
                => /\ evicting = NoEviction
                   /\ evicting'.key \in AllKeys
                   /\ lfu[evicting'.key] = p
       /\ (evicting # NoEviction /\ evicting' # evicting)
            => (evicting' = NoEviction /\ lfu'[evicting.key] = NilPublication)
      ]_vars

\* The cache is full, and an entry that left it is still in a handler's hands:
\* closed once and no longer in the index.
C8_Witness ==
    /\ evicting = NoEviction
    /\ Cardinality(Resident(lfu)) = MaxCachedPublicationAmount
    /\ \E w \in workers :
        /\ held[w] # NilPublication
        /\ lfu[held[w].key] # held[w]
        /\ pubs[held[w]] = PubState("ready", 1)

(***************************************************************************)
(* Properties of the plain-encoding validator.                             *)
(***************************************************************************)
EncodedValidated == decoded # NoDecoded

URLSafeChars == {encodeURL[i] : i \in 1..64}

\* Every path's encoding is validated to that path, status 200, no error.
RoundTrip200 ==
    \A path \in EncodedPaths :
        encoded = RawURLEncodeToString(path) => decoded = Decoded(path, StatusOK, NilError)

Refused400 ==
    /\ decoded.path = <<>>
    /\ decoded.status = StatusBadRequest
    /\ decoded.err # NilError

\* An unpadded URL-safe base64 string: characters of the alphabet only, and
\* not one character more than a multiple of four.
WellFormedToken(tok) ==
    /\ \A i \in 1..Len(tok) : tok[i] \in URLSafeChars
    /\ Len(tok) % 4 # 1

\* The token without its line ends.
WithoutLineEnds(tok) == SelectSeq(tok, LAMBDA c : c \notin {"\r", "\n"})

\* What the decoder refuses: a character that is neither of the alphabet nor a
\* line end, or, line ends not counted, one character more than a multiple of
\* four.
DecoderRefuses(tok) ==
    \/ \E i \in 1..Len(tok) : tok[i] \notin URLSafeChars \cup {"\r", "\n"}
    \/ Len(WithoutLineEnds(tok)) % 4 = 1

\* C11 as stated: the encoding of every path validates to that path with 200,
\* and every token that is not an unpadded URL-safe base64 string gets an
\* empty path, 400 and an error.
C11_RefusesEveryInvalidToken ==
    EncodedValidated =>
        /\ RoundTrip200
        /\ ~WellFormedToken(encoded) => Refused400

\* C11 amended: the encoding of every path validates to that path with 200;
\* a token gets an empty path, 400 and an error exactly when it holds a
\* character that is neither of the alphabet nor "\r" or "\n" (the padding
\* character is such a character), or when its characters other than line
\* ends number one more than a multiple of four; every other token gets 200,
\* no error, and three bytes for every four characters that are not line ends.
C11_RefusesWhatDecoderRefuses ==
    EncodedValidated =>
        /\ RoundTrip200
        /\ DecoderRefuses(encoded) => Refused400
        /\ ~DecoderRefuses(encoded) =>
              /\ decoded.status = StatusOK
              /\ decoded.err = NilError
              /\ Len(decoded.path) = (Len(WithoutLineEnds(encoded)) * 3) \div 4

\* A token with a line end in it has been validated to the path "A".
C11_Witness ==
    /\ EncodedValidated
    /\ \E i \in 1..Len(encoded) : encoded[i] = "\n"
    /\ decoded = Decoded(<<65>>, StatusOK, NilError)

(***************************************************************************)
(* Properties of the three validators together.                            *)
(***************************************************************************)
\* C12: whichever validator runs, on whatever token, the error is nil exactly
\* when the status is 200, and a result with an error carries the empty path.
C12_NoPathWithError ==
    /\ Validated =>
          /\ outcome.err = NilError <=> outcome.status = StatusOK
          /\ outcome.err # NilError => outcome.path = ""
    /\ EncodedValidated =>
          /\ decoded.err = NilError <=> decoded.status = StatusOK
          /\ decoded.err # NilError => decoded.path = <<>>

\* A token that carries a usable subject has been refused: the result has an
\* error and no path.
C12_Witness ==
    /\ Validated
    /\ token.sub = Subject("string", "file:///book.epub")
    /\ outcome.err # NilError
    /\ outcome.path = ""

(***************************************************************************)
(* Properties of the router.                                               *)
(***************************************************************************)
\* What Validate returned for the request, and whether it has been called.
Result == IF provider = "base64" THEN decoded ELSE outcome

ResultReturned == IF provider = "base64" THEN EncodedValidated ELSE Validated

\* C13: no handler is invoked and nothing is written before the token has been
\* validated; when validation fails the reply is the validator's status and
\* message and no handler is ever invoked; when it succeeds the handler of the
\* matched route is invoked exactly once, with the validator's path under
\* ContextPathKey.
C13_ValidateBeforeHandler ==
    /\ rpc \in {"idle", "matched"} =>
          /\ handlerCalls = <<>>
          /\ reply = NoReply
          /\ ctx = {}
    /\ rpc = "next" =>
          /\ ResultReturned
          /\ Result.err = NilError
          /\ Result.status = StatusOK
          /\ ctx = {Result.path}
          /\ handlerCalls = <<>>
          /\ reply = NoReply
    /\ rpc = "done" =>
          /\ ResultReturned
          /\ IF Result.err # NilError
             THEN /\ handlerCalls = <<>>
                  /\ ctx = {}
                  /\ reply = Reply(Result.status, Result.err)
             ELSE handlerCalls = <<HandlerCall(route, {Result.path})>>

\* A request for an asset with a valid token has been answered: the asset
\* handler ran once and saw the token's subject as the path.
C13_Witness ==
    /\ rpc = "done"
    /\ provider = "jwt"
    /\ route = RouteAsset
    /\ handlerCalls = <<HandlerCall(RouteAsset, {"file:///book.epub"})>>

(***************************************************************************)
(* More properties of the fetch client.                                    *)
(***************************************************************************)
InFlight == pc \in {"send", "transport", "connected", "written", "received"}

\* C14 as stated: a chain is never followed for more than 10 hops, and a chain
\* that is cut for its length ends in the error and no response.
C14_ErrorAndNoResponse ==
    /\ via <= 10
    /\ (pc = "done" /\ err = ErrTooManyRedirects) => resp = NilResponse

\* C14 amended: a chain never has more than 10 requests, the first one and 9
\* redirects (via counts the redirects received so far); the 10th redirect, and
\* no earlier one, is refused for the length of the chain, and Do then returns
\* the error together with that redirect's own response, its body closed.
C14_TenRequestsThenError ==
    /\ via <= 10
    /\ InFlight => via <= 9
    /\ (pc = "done" /\ err = ErrTooManyRedirects) =>
          /\ via = 10
          /\ resp = Response(req.URL, 302, FALSE)
    /\ (pc = "done" /\ via = 10) => err = ErrTooManyRedirects

\* The tenth redirect of a chain has been refused.
C14_Witness ==
    /\ pc = "done"
    /\ via = 10
    /\ err = ErrTooManyRedirects
    /\ transportReq # NoRequest

\* A request is with the underlying transport.
AtTransport(position) == position \in {"transport", "connected", "written"}

\* C15: a call of RoundTrip leaves the request it was given, and the caller's
\* request, as they were; with an authorization value configured the request
\* handed to the underlying transport, on the first hop and on every redirect
\* hop, is a copy for the same URL carrying that value as its Authorization
\* header; with none configured it is the given request itself, with no
\* Authorization header.
C15_CloneCarriesAuthorization ==
    [][/\ pc = "send" => (req' = req /\ callerReq' = callerReq)
       /\ AtTransport(pc') =>
             /\ transportReq'.URL = req'.URL
             /\ callerReq'.Header.Authorization = ""
             /\ Authorization # "" => transportReq'.Header.Authorization = Authorization
             /\ Authorization = "" =>
                   (transportReq' = req' /\ transportReq'.Header.Authorization = "")
      ]_vars

\* The request of a redirect hop is on the wire with the configured header, and
\* the caller's request has none.
C15_Witness ==
    /\ pc = "written"
    /\ via >= 1
    /\ Authorization # ""
    /\ transportReq.Header.Authorization = Authorization
    /\ callerReq.Header.Authorization = ""

(***************************************************************************)
(* Properties of the start-up and of serve.Remote.                         *)
(***************************************************************************)

\* RunE has run to its end.
Ran == started \in {"serving", "failed", "exited"}

\* An allow-list entry the start-up objects to: text net/url cannot parse, a
\* scheme other than http and https, or no host.
InvalidEntry(raw) ==
    \/ ~raw.parses
    \/ ToLower(raw.scheme) \notin {"http", "https"}
    \/ raw.host = ""

HasInvalidEntry ==
    \E i \in 1..Len(httpHostWhitelistFlag) : InvalidEntry(httpHostWhitelistFlag[i])

\* The errors of the checks RunE makes before it looks at the allow-list.
EarlierErrors ==
    {ErrInvalidScheme, ErrNoDirectory, ErrStat, ErrNotDirectory, ErrFileWithoutDirectory,
     ErrS3Credentials, ErrLoadConfig, ErrGCSClient}

\* C16, as claimed: with an invalid allow-list entry the start-up does not end
\* with the entry's error; the server that starts has logged the warning and
\* accepts neither http nor https.
C16_InvalidEntryNotFatal ==
    (Ran /\ HasInvalidEntry) =>
        /\ startErr \notin WhitelistFlagErrors
        /\ started = "serving" =>
              /\ WarnHTTPClient \in logged
              /\ ~AcceptsScheme(remote, SchemeHTTP)
              /\ ~AcceptsScheme(remote, SchemeHTTPS)

\* C16, amended: an invalid allow-list entry ends the start-up.  Whenever the
\* checks before the allow-list pass, RunE returns the error of the entry and
\* no server starts, whatever other schemes are configured; a server that
\* starts has only valid entries and an HTTP client holding them, has never
\* logged that HTTP support is disabled, and accepts http and https exactly as
\* --scheme enables them.
C16_InvalidEntryIsFatal ==
    /\ WarnHTTPClient \notin logged
    /\ (Ran /\ HasInvalidEntry) =>
          /\ started # "serving"
          /\ remote = ZeroRemote
          /\ startErr \in WhitelistFlagErrors \cup EarlierErrors
    /\ startErr \in WhitelistFlagErrors => (started = "failed" /\ HasInvalidEntry)
    /\ started = "serving" =>
          /\ ~HasInvalidEntry
          /\ remote.HTTP.present
          /\ Len(remote.HTTP.Whitelist) = Len(httpHostWhitelistFlag)
          /\ \A i \in 1..Len(httpHostWhitelistFlag) :
                /\ remote.HTTP.Whitelist[i].Host = httpHostWhitelistFlag[i].host
                /\ remote.HTTP.Whitelist[i].Path = httpHostWhitelistFlag[i].path
          /\ AcceptsScheme(remote, SchemeHTTP) <=> SchemeHTTP \in schemesOf(schemeFlag)
          /\ AcceptsScheme(remote, SchemeHTTPS) <=> SchemeHTTPS \in schemesOf(schemeFlag)

\* The start-up gave up on an entry without a host although the file and the
\* https schemes were configured correctly.
C16_Witness ==
    /\ started = "failed"
    /\ startErr = ErrWhitelistURLHost
    /\ {SchemeFile, SchemeHTTPS} \subseteq schemesOf(schemeFlag)
    /\ fileDirectoryFlag = "/pubs"
    /\ remote = ZeroRemote

\* C17: the answer of AcceptsScheme depends on the Remote and the scheme alone
\* and leaves the Remote as it was: file is accepted iff LocalDirectory is not
\* empty, s3 iff the S3 client is present, gs iff the GCS client is present,
\* http iff HTTPEnabled and the HTTP client is present, https iff HTTPSEnabled
\* and the HTTP client is present, any other scheme never; flipping HTTPEnabled
\* does not change the answer for https, nor HTTPSEnabled the answer for http.
C17_AcceptsSchemeByCapability ==
    [][answer'.asked =>
          /\ remote' = remote
          /\ LET scheme == answer'.scheme
                 accepted == answer'.accepted
             IN  /\ scheme = "file" => (accepted <=> remote.LocalDirectory # "")
                 /\ scheme = "s3" => (accepted <=> remote.S3)
                 /\ scheme = "gs" => (accepted <=> remote.GCS)
                 /\ scheme = "http" => (accepted <=> (remote.HTTPEnabled /\ remote.HTTP.present))
                 /\ scheme = "https" => (accepted <=> (remote.HTTPSEnabled /\ remote.HTTP.present))
                 /\ scheme \notin {"file", "s3", "gs", "http", "https"} => ~accepted
          /\ AcceptsScheme([remote EXCEPT !.HTTPEnabled = ~@], "https")
                = AcceptsScheme(remote, "https")
          /\ AcceptsScheme([remote EXCEPT !.HTTPSEnabled = ~@], "http")
                = AcceptsScheme(remote, "http")
      ]_vars

\* https was refused by a Remote that has the HTTP client and accepts http.
C17_Witness ==
    /\ answer.asked
    /\ answer.scheme = "https"
    /\ ~answer.accepted
    /\ remote.HTTP.present
    /\ remote.HTTPEnabled
    /\ ~remote.HTTPSEnabled

\* C18, as claimed: the Remote of a server that started accepts one of file,
\* s3, gs, http, https only if --scheme lists it.
C18_OnlyEnabledSchemes ==
    (started = "serving" /\ answer.asked /\ answer.accepted) =>
        answer.scheme \in schemesOf(schemeFlag)

====
